---------------------------- MODULE Spec2Model ----------------------------
(***************************************************************************)
(* State-machine model of the Seattle housing dashboard.                   *)
(*                                                                         *)
(*   src/js/map.js          map load, hover / click / idle handlers,       *)
(*                          updateFromMap, switchMapLayer, resetMap        *)
(*   src/unnamed/part_000   panel: layer toggle, stat block, legend,       *)
(*                          reset button, tooltip; demographic data load,  *)
(*                          year slider, threshold toggle; MHA zone hover  *)
(*   src/unnamed/part_001   bar / line / donut charts                      *)
(*   src/js/charts.js       trend / race / income charts                   *)
(*                                                                         *)
(* The browser's event loop runs one handler at a time, so every action    *)
(* below is one complete handler (or one timer / promise callback).        *)
(***************************************************************************)
EXTENDS Integers, Sequences, FiniteSets

(***************************************************************************)
(* Bounds of the model.                                                    *)
(***************************************************************************)
\* pending setTimeout(updateFromMap, ...) callbacks allowed at one time
MaxTimers == 2
\* length of the data list handed to updateStat in the stat specification
MaxStatLen == 3
\* neighborhoods in the generated bar chart inputs
MaxHoods == 10
\* records appended to a generated bar chart input
MaxExtra == 1
\* rendered features in a generated viewport
MaxViewLen == 3

(***************************************************************************)
(* Program constants.                                                      *)
(***************************************************************************)
\* .slice(0, 8) in updateBarChart
TopN == 8
\* const offset = 16 in positionTooltip
TooltipOffset == 16

(***************************************************************************)
(* JavaScript values.                                                      *)
(*   a numeric field      Num(n), Null (JSON null) or Undef (absent)       *)
(*   a string field       the string, "" when absent: the code reads       *)
(*                        string fields only through s || default, where   *)
(*                        '' and undefined behave alike                    *)
(*   null as an id        NULL                                             *)
(***************************************************************************)
NULL == "null"
Num(n) == [k |-> "num", n |-> n]
Null == [k |-> "null", n |-> 0]
Undef == [k |-> "undef", n |-> 0]
IsNum(v) == v.k = "num"

\* v || 0
OrZero(v) == IF IsNum(v) THEN v.n ELSE 0

\* s || d
OrText(s, d) == IF s = "" THEN d ELSE s

\* Math.floor in the place of Math.round
MathRoundDown(num, den) == num \div den

\* Math.round(num / den) for den > 0: the nearest integer, halves towards +Infinity
MathRound(num, den) == (2 * num + den) \div (2 * den)

RECURSIVE SumSeq(_)
SumSeq(s) == IF s = <<>> THEN 0 ELSE Head(s) + SumSeq(Tail(s))

\* Array.prototype.filter is SelectSeq; Array.prototype.map:
MapSeq(s, F(_)) == [i \in 1..Len(s) |-> F(s[i])]

\* Array.prototype.sort with comparator cmp, Before(a, b) <=> cmp(a, b) < 0.
\* The sort is stable (ECMAScript 2019): elements that compare equal keep
\* their order, so element i lands behind every element that goes before it
\* and every equal element that precedes it.
StableSort(s, Before(_, _)) ==
    LET n == Len(s)
        rank(i) ==
            1 + Cardinality({j \in 1..n :
                    \/ Before(s[j], s[i])
                    \/ (~Before(s[i], s[j]) /\ j < i)})
    IN  [r \in 1..n |-> s[CHOOSE i \in 1..n : rank(i) = r]]

\* Array.prototype.slice(0, n)
Take(s, n) == SubSeq(s, 1, IF Len(s) < n THEN Len(s) ELSE n)

(***************************************************************************)
(* Feature properties: a tract of seattle_housing.geojson or a zone of     *)
(* MHA.geojson.  Every record has every field; a field the feature lacks   *)
(* is Undef or "".                                                         *)
(***************************************************************************)
\* RENT_TIMESERIES is a JSON string: absent, unparsable, or an array
TsMissing == [kind |-> "missing", entries |-> <<>>]
TsBad == [kind |-> "bad", entries |-> <<>>]
TsJson(entries) == [kind |-> "json", entries |-> entries]
Pt(y, r) == [year |-> y, rent |-> r]

NoGrapi == [i \in 1..6 |-> Undef]

BaseProps ==
    [GEOID |-> "", NAME |-> "", NEIGHBORHOOD |-> "",
     MEDIAN_RENT |-> Undef, RENT_BURDEN_PCT |-> Undef,
     RENT_TIMESERIES |-> TsMissing, GRAPI |-> NoGrapi,
     RENT_COST_CATEGORY |-> "", RENT_CHANGE_CATEGORY |-> "",
     LEVEL_OF_CONCERN |-> "", RENTER_UNITS |-> Undef,
     MEDIAN_GROSS_RENT |-> Undef,
     MHA_VALUE |-> "", ZONING |-> "", CATEGORY_DESC |-> ""]

Tract1 ==
    [BaseProps EXCEPT
        !.GEOID = "g1", !.NAME = "Tract 1", !.NEIGHBORHOOD = "Ballard",
        !.MEDIAN_RENT = Num(1000), !.RENT_BURDEN_PCT = Num(40),
        !.RENT_TIMESERIES = TsJson(<<Pt(2021, 900), Pt(2020, 800), Pt(2022, 0)>>),
        !.GRAPI = <<Num(10), Num(20), Num(30), Num(15), Num(15), Num(10)>>,
        !.RENT_COST_CATEGORY = "Low", !.RENT_CHANGE_CATEGORY = "Rising",
        !.LEVEL_OF_CONCERN = "High", !.RENTER_UNITS = Num(1200),
        !.MEDIAN_GROSS_RENT = Num(1100)]
Tract2 ==
    [BaseProps EXCEPT
        !.GEOID = "g2", !.NAME = "Tract 2",
        !.MEDIAN_RENT = Num(0), !.RENT_BURDEN_PCT = Null,
        !.RENT_TIMESERIES = TsBad]
Tract3 ==
    [BaseProps EXCEPT
        !.GEOID = "g3", !.NEIGHBORHOOD = "Fremont",
        !.MEDIAN_RENT = Num(2001), !.RENT_BURDEN_PCT = Num(25),
        !.RENT_TIMESERIES = TsJson(<<Pt(2020, 0)>>),
        !.GRAPI = <<Num(5), Undef, Num(0), Num(40), Null, Num(55)>>,
        !.RENT_COST_CATEGORY = "High"]
\* a rendered feature whose GEOID is empty
NoIdFeature ==
    [BaseProps EXCEPT
        !.NAME = "Water", !.NEIGHBORHOOD = "Ballard",
        !.MEDIAN_RENT = Num(1500), !.RENT_BURDEN_PCT = Num(10)]

\* a second rendered feature with the GEOID of Tract 1
Tract1Again == [Tract1 EXCEPT !.NAME = "Tract 1 (part)", !.MEDIAN_RENT = Num(1200)]

Tracts == {Tract1, Tract2, Tract3}
\* zones of MHA.geojson
Zone1 == [BaseProps EXCEPT !.MHA_VALUE = "M1", !.ZONING = "LR1", !.CATEGORY_DESC = "Lowrise"]
Zone2 == BaseProps
Zones == {Zone1, Zone2}

(***************************************************************************)
(* Panel: legend, stat block, tooltip (src/unnamed/part_000).              *)
(***************************************************************************)
Layers == {"rent", "burden", "mha"}

\* the em dash the code writes for "no data"
DASH == "--"

LEGEND_CONFIG ==
    [rent |-> [title |-> "Median Rent / Unit",
               items |-> <<"< $1,000", "$1,000 - $1,500", "$1,500 - $2,000",
                           "$2,000 - $2,500", "> $2,500">>],
     burden |-> [title |-> "Renters Paying 35%+ of Income",
                 items |-> <<"< 20%", "20 - 35%", "35 - 50%", "50 - 65%", "> 65%">>],
     mha |-> [title |-> "MHA Zone Type",
              items |-> <<"M - Base Requirement", "M1 - Increased Requirement",
                          "M2 - Highest Requirement", "No MHA Requirement">>]]

\* renderLegend without container.innerHTML = '': the rows are appended to
\* the rows already there
renderLegendAppends(legend, layer) ==
    IF layer \notin DOMAIN LEGEND_CONFIG THEN legend
    ELSE [title |-> LEGEND_CONFIG[layer].title,
          items |-> legend.items \o LEGEND_CONFIG[layer].items]

\* the legend after renderLegend(layer), given the legend before
renderLegend(legend, layer) ==
    IF layer \notin DOMAIN LEGEND_CONFIG THEN legend ELSE LEGEND_CONFIG[layer]

\* textContent values of the stat block
StatText(s) == [kind |-> "text", n |-> 0, s |-> s]
StatDash == StatText(DASH)
\* '$' + avg.toLocaleString()
StatDollars(n) == [kind |-> "dollars", n |-> n, s |-> "$"]
\* avg.toFixed(1) + '%', n in tenths of a percent
StatPercent(n) == [kind |-> "percent", n |-> n, s |-> "%"]
\* rents.length + ' tracts in view'
StatCount(n) == [kind |-> "count", n |-> n, s |-> " tracts in view"]

RentLabel == "Avg. Median Rent . Visible Tracts"
BurdenLabel == "Avg. Rent Burden . Visible Tracts"
MhaLabel == "MHA Zones . Visible Area"

\* the stat block the reset button writes
ResetStat ==
    [label |-> RentLabel, value |-> StatDash, sub |-> StatText("Hover a tract for details")]

RentOf(d) == d.MEDIAN_RENT
BurdenOf(d) == d.RENT_BURDEN_PCT
\* the rent filter without `v > 0`: any number passes
PositiveNumAnyNumber(v) == IsNum(v)

\* v && v > 0
PositiveNum(v) == IsNum(v) /\ v.n # 0 /\ v.n > 0
\* the burden filter written like the rent filter: a zero does not pass
NotNullishNorZero(v) == IsNum(v) /\ v.n # 0
\* v !== null && v !== undefined
NotNullish(v) == v.k \notin {"null", "undef"}
NumOf(v) == v.n

\* (sum / len).toFixed(1) in tenths, for a non-negative sum of integers: the
\* nearest tenth, and the larger one when sum / len lies exactly between two
ToFixed1(sum, len) == MathRound(10 * sum, len)

\* the stat block after updateStat(data) under the active layer
updateStat(stat, layer, data) ==
    IF data = <<>> THEN [stat EXCEPT !.value = StatDash]
    ELSE IF layer = "rent" THEN
        LET rents == MapSeq(SelectSeq(MapSeq(data, RentOf), PositiveNum), NumOf)
        IN  IF rents = <<>> THEN [stat EXCEPT !.value = StatDash]
            ELSE [label |-> RentLabel,
                  value |-> StatDollars(MathRound(SumSeq(rents), Len(rents))),
                  sub |-> StatCount(Len(rents))]
    ELSE IF layer = "burden" THEN
        LET burdens == MapSeq(SelectSeq(MapSeq(data, BurdenOf), NotNullish), NumOf)
        IN  IF burdens = <<>> THEN [stat EXCEPT !.value = StatDash]
            ELSE [label |-> BurdenLabel,
                  value |-> StatPercent(ToFixed1(SumSeq(burdens), Len(burdens))),
                  sub |-> StatText("Renters paying 35%+ of income")]
    ELSE IF layer = "mha" THEN
        [label |-> MhaLabel, value |-> StatText("Policy"),
         sub |-> StatText("Mandatory Housing Affordability overlay")]
    ELSE stat

\* tooltip cell values
TtText(s) == [kind |-> "text", n |-> 0, s |-> s]
\* '$' + n.toLocaleString()
TtDollars(n) == [kind |-> "dollars", n |-> n, s |-> "$"]
\* n.toLocaleString()
TtNumber(n) == [kind |-> "number", n |-> n, s |-> ""]
\* n + '%'
TtPercent(n) == [kind |-> "percent", n |-> n, s |-> "%"]

tooltipRow(key, val, accent) == [key |-> key, val |-> val, accent |-> accent]

\* props.RENT_BURDEN_PCT !== null ? props.RENT_BURDEN_PCT + '%' : DASH
BurdenCell(v) ==
    IF v.k = "null" THEN TtText(DASH)
    ELSE IF v.k = "undef" THEN TtText("undefined%")
    ELSE TtPercent(v.n)

\* the rows showTooltip builds for props under the active layer
TooltipRows(layer, props) ==
    IF layer = "rent" THEN
        <<tooltipRow("Median Rent", TtDollars(OrZero(props.MEDIAN_RENT)), TRUE),
          tooltipRow("Rent Category", TtText(OrText(props.RENT_COST_CATEGORY, DASH)), FALSE),
          tooltipRow("YoY Change", TtText(OrText(props.RENT_CHANGE_CATEGORY, DASH)), FALSE)>>
        \o (IF props.LEVEL_OF_CONCERN # ""
            THEN <<tooltipRow("Concern Level", TtText(props.LEVEL_OF_CONCERN), FALSE)>>
            ELSE <<>>)
    ELSE IF layer = "burden" THEN
        <<tooltipRow("Rent Burden", BurdenCell(props.RENT_BURDEN_PCT), TRUE),
          tooltipRow("Renter Units", TtNumber(OrZero(props.RENTER_UNITS)), FALSE),
          tooltipRow("Median Gross Rent", TtDollars(OrZero(props.MEDIAN_GROSS_RENT)), FALSE)>>
    ELSE IF layer = "mha" THEN
        <<tooltipRow("MHA Value", TtText(OrText(props.MHA_VALUE, DASH)), TRUE),
          tooltipRow("Zone", TtText(OrText(props.ZONING, DASH)), FALSE),
          tooltipRow("Category", TtText(OrText(props.CATEGORY_DESC, DASH)), FALSE)>>
    ELSE <<>>

\* the window (innerWidth, innerHeight) and the rendered tooltip box
\* (offsetWidth, offsetHeight), in pixels
WindowSize == <<200, 100>>
TooltipSize == <<60, 40>>

\* the (left, top) positionTooltip gives the tooltip for a pointer at (x, y)
positionTooltip(x, y) ==
    LET w == TooltipSize[1]
        h == TooltipSize[2]
    IN  <<IF x + w + TooltipOffset > WindowSize[1]
          THEN x - w - TooltipOffset ELSE x + TooltipOffset,
          IF y + h + TooltipOffset > WindowSize[2]
          THEN y - h - TooltipOffset ELSE y + TooltipOffset>>

HiddenTooltip ==
    [display |-> "none", name |-> <<"", "">>, rows |-> <<>>, pos |-> <<0, 0>>]

\* the tooltip after showTooltip(e, props)
showTooltip(layer, props, at) ==
    [display |-> "block",
     name |-> <<props.NAME, OrText(props.NEIGHBORHOOD, "")>>,
     rows |-> TooltipRows(layer, props),
     pos |-> positionTooltip(at[1], at[2])]

\* hideTooltip that leaves the display style as it is
hideTooltipKeepsDisplay(tooltip) == tooltip

\* the tooltip after hideTooltip()
hideTooltip(tooltip) == [tooltip EXCEPT !.display = "none"]

(***************************************************************************)
(* Bar, line and donut charts (src/unnamed/part_001).  A chart variable is *)
(* null until initCharts; afterwards it holds the columns last loaded.     *)
(***************************************************************************)
\* a category chart: the 'x' column and the value column
NullChart == [ready |-> FALSE, x |-> <<>>, y |-> <<>>]
EmptyChart == [ready |-> TRUE, x |-> <<>>, y |-> <<>>]
\* the donut: its six value columns
EmptyDonut == [ready |-> TRUE, x |-> <<>>, y |-> <<0, 0, 0, 0, 0, 0>>]

\* String(n)
Str(n) == [str |-> n]

LinePlaceholderTitle == <<"Click a tract", "Rent Over Time">>
DonutPlaceholderTitle == <<"Click a tract", "Rent Burden Breakdown">>

RECURSIVE Distinct(_)
\* the elements of s without repetitions, in the order of their first occurrence
\* (the key order of the object `grouped`)
Distinct(s) ==
    IF s = <<>> THEN <<>>
    ELSE LET r == Distinct(SubSeq(s, 1, Len(s) - 1))
             x == s[Len(s)]
         IN  IF \E i \in 1..Len(r) : r[i] = x THEN r ELSE Append(r, x)

HoodOf(d) == OrText(d.neighborhood, "Unknown")
BarRent(d) == d.rent
BarName(d) == d.name
PositiveRent(d) == d.rent > 0
\* the comparator with its operands exchanged: a.rent - b.rent
RentAscending(a, b) == a.rent < b.rent

\* (a, b) => b.rent - a.rent is negative
RentDescending(a, b) == b.rent - a.rent < 0

\* the per-neighborhood averages of updateBarChart: filtered, sorted, cut to 8
BarRanking(data) ==
    LET names == Distinct(MapSeq(data, HoodOf))
        Group(nm) ==
            LET InGroup(d) == HoodOf(d) = nm
                rents == MapSeq(SelectSeq(data, InGroup), BarRent)
            IN  [name |-> nm, rent |-> MathRound(SumSeq(rents), Len(rents))]
    IN  Take(StableSort(SelectSeq(MapSeq(names, Group), PositiveRent), RentDescending), TopN)

\* barChart after updateBarChart(data)
updateBarChart(barChart, data) ==
    IF ~barChart.ready \/ data = <<>> THEN barChart
    ELSE LET sorted == BarRanking(data)
         IN  IF sorted = <<>> THEN barChart
             ELSE [ready |-> TRUE, x |-> MapSeq(sorted, BarName), y |-> MapSeq(sorted, BarRent)]

\* d.rent && d.rent > 0
ValidPoint(d) == d.rent # 0 /\ d.rent > 0
\* (a, b) => a.year - b.year is negative
YearAscending(a, b) == a.year - b.year < 0
PointYear(d) == Str(d.year)
PointRent(d) == d.rent

\* updateLineChart that adds the points to the series already loaded
updateLineChartAppends(lineChart, title, tractName, timeseries) ==
    IF ~lineChart.ready \/ timeseries = <<>> THEN <<lineChart, title>>
    ELSE LET valid == StableSort(SelectSeq(timeseries, ValidPoint), YearAscending)
         IN  IF valid = <<>> THEN <<lineChart, title>>
             ELSE <<[ready |-> TRUE, x |-> lineChart.x \o MapSeq(valid, PointYear),
                     y |-> lineChart.y \o MapSeq(valid, PointRent)],
                    <<tractName, "Rent Over Time">> >>

\* <<lineChart, chart2-title>> after updateLineChart(tractName, timeseries)
updateLineChart(lineChart, title, tractName, timeseries) ==
    IF ~lineChart.ready \/ timeseries = <<>> THEN <<lineChart, title>>
    ELSE LET valid == StableSort(SelectSeq(timeseries, ValidPoint), YearAscending)
         IN  IF valid = <<>> THEN <<lineChart, title>>
             ELSE <<[ready |-> TRUE, x |-> MapSeq(valid, PointYear), y |-> MapSeq(valid, PointRent)],
                    <<tractName, "Rent Over Time">> >>

\* <<donutChart, chart3-title>> after updateDonutChart(tractName, props)
updateDonutChart(donutChart, title, tractName, props) ==
    IF ~donutChart.ready THEN <<donutChart, title>>
    ELSE <<[ready |-> TRUE, x |-> <<>>, y |-> MapSeq(props.GRAPI, OrZero)],
           <<tractName, "Rent Burden">> >>

\* resetCharts that clears the line chart and leaves the donut alone
resetChartsLineOnly(lineChart, title2, donutChart, title3) ==
    <<IF lineChart.ready THEN EmptyChart ELSE lineChart,
      IF lineChart.ready THEN LinePlaceholderTitle ELSE title2,
      donutChart,
      title3>>

\* <<lineChart, chart2-title, donutChart, chart3-title>> after resetCharts()
resetCharts(lineChart, title2, donutChart, title3) ==
    <<IF lineChart.ready THEN EmptyChart ELSE lineChart,
      IF lineChart.ready THEN LinePlaceholderTitle ELSE title2,
      IF donutChart.ready THEN EmptyDonut ELSE donutChart,
      IF donutChart.ready THEN DonutPlaceholderTitle ELSE title3>>

\* JSON.parse(props.RENT_TIMESERIES || '[]') inside try / catch
ParseTimeseries(ts) == IF ts.kind = "json" THEN ts.entries ELSE <<>>

(***************************************************************************)
(* updateFromMap, the layer helpers (src/js/map.js).                       *)
(***************************************************************************)
LayerIds == {"rent-fill", "burden-fill", "mha-fill", "mha-line", "housing-line", "housing-hover"}

\* layer visibility after setLayerVisibility(layerId, visibility):
\* "absent" is a layer map.getLayer does not find
setLayerVisibility(vis, layerId, visibility) ==
    IF vis[layerId] # "absent" THEN [vis EXCEPT ![layerId] = visibility] ELSE vis

isLayerVisible(vis, layerId) == vis[layerId] = "visible"

\* layer visibility after the synchronous part of switchMapLayer(layer)
switchMapLayer(vis, layer) ==
    LET v1 == setLayerVisibility(vis, "rent-fill", "none")
        v2 == setLayerVisibility(v1, "burden-fill", "none")
        v3 == setLayerVisibility(v2, "mha-fill", "none")
        v4 == setLayerVisibility(v3, "mha-line", "none")
    IN  IF layer = "rent" THEN setLayerVisibility(v4, "rent-fill", "visible")
        ELSE IF layer = "burden" THEN setLayerVisibility(v4, "burden-fill", "visible")
        ELSE IF layer = "mha" THEN
            setLayerVisibility(setLayerVisibility(v4, "mha-fill", "visible"), "mha-line", "visible")
        ELSE v4

\* switchMapLayer without its setTimeout: no update is scheduled
ScheduleUpdateDropped(timers) == timers

\* the timers pending after switchMapLayer's setTimeout(updateFromMap, 300)
ScheduleUpdate(timers) == timers + 1

\* the layer updateFromMap queries, NULL when neither choropleth is visible
VisibleLayer(vis) ==
    IF isLayerVisible(vis, "burden-fill") THEN "burden-fill"
    ELSE IF isLayerVisible(vis, "rent-fill") THEN "rent-fill"
    ELSE NULL

RECURSIVE DedupeKeepsLast(_, _)
\* the dedupe loop keeping the last feature of a GEOID instead of the first
DedupeKeepsLast(features, seen) ==
    IF features = <<>> THEN <<>>
    ELSE LET id == Head(features).GEOID
             rest == Tail(features)
         IN  IF id # "" /\ \A i \in DOMAIN rest : rest[i].GEOID # id
             THEN <<Head(features)>> \o DedupeKeepsLast(rest, seen)
             ELSE DedupeKeepsLast(rest, seen)

RECURSIVE DedupeByGeoid(_, _)
\* the rendered features' properties, one per non-empty GEOID, first kept
DedupeByGeoid(features, seen) ==
    IF features = <<>> THEN <<>>
    ELSE LET id == Head(features).GEOID
         IN  IF id # "" /\ id \notin seen
             THEN <<Head(features)>> \o DedupeByGeoid(Tail(features), seen \cup {id})
             ELSE DedupeByGeoid(Tail(features), seen)

\* p.MEDIAN_RENT > 0
HasPositiveRent(p) == IsNum(p.MEDIAN_RENT) /\ p.MEDIAN_RENT.n > 0
BarDatum(p) == [neighborhood |-> OrText(p.NEIGHBORHOOD, "Unknown"), rent |-> p.MEDIAN_RENT.n]
\* barData of updateFromMap
BarData(visible) == MapSeq(SelectSeq(visible, HasPositiveRent), BarDatum)

(***************************************************************************)
(* Demographic charts (src/js/charts.js) and their data                    *)
(* (src/unnamed/part_000 1-52).                                            *)
(***************************************************************************)
\* a row of Rent_Burden_Greater_than_NN; All_ is a share, in 1/10000
BurdenRow(year, tenure, race, age, share) ==
    [YEAR |-> year, TENURE |-> tenure, RACE |-> race, AGE |-> age, All_ |-> share]
\* a row of Renter_HH_by_Income_Category
IncomeRow(year, f1, f2, f3, f4, f5) ==
    [YEAR |-> year, F0___30_ |-> f1, F30___50_ |-> f2, F50___80_ |-> f3,
     F80___120_ |-> f4, Above_120_ |-> f5]

\* window.dashData before the load
EmptyData == [burden50 |-> <<>>, burden30 |-> <<>>, income |-> <<>>]

\* the datasets the three fetches can deliver
FullData ==
    [burden50 |-> <<BurdenRow(2022, "Renters", "All", "All", 2437),
                    BurdenRow(2021, "Renters", "All", "All", 2215),
                    BurdenRow(2022, "Renters", "White", "All", 2010),
                    BurdenRow(2022, "Renters", "Black", "All", 3555),
                    BurdenRow(2021, "Renters", "White", "All", 1900),
                    BurdenRow(2022, "Owners", "All", "All", 900)>>,
     burden30 |-> <<BurdenRow(2021, "Renters", "All", "All", 4400),
                    BurdenRow(2022, "Renters", "All", "All", 4650),
                    BurdenRow(2022, "Renters", "White", "All", 4100),
                    BurdenRow(2021, "Renters", "Asian", "All", 3900)>>,
     income |-> <<IncomeRow(2022, 50000, 30000, 35000, 30000, 60000)>>]
\* the 30% file holds no Renters / All / All row
SparseData ==
    [FullData EXCEPT !.burden30 = <<BurdenRow(2022, "Renters", "White", "All", 4100)>>]
DataSets == {FullData, SparseData}

\* the values the year slider can take, and the default of panel.js
SliderYears == {2020, 2021, 2022}
DefaultYear == 2022
DefaultThreshold == 50
Thresholds == {30, 50}

Races == <<"White", "Black", "Asian", "Hispanic", "Native">>
Brackets == <<"<30% AMI", "30-50%", "50-80%", "80-120%", ">120%">>

\* trendChart, raceChart, incomeChart after initCharts() of charts.js
initDemographicCharts ==
    <<EmptyChart,
      [ready |-> TRUE, x |-> Races, y |-> <<0, 0, 0, 0, 0>>],
      [ready |-> TRUE, x |-> Brackets, y |-> <<0, 0, 0, 0, 0>>]>>

\* the dataset choice with its branches exchanged
DatasetOfOther(dashData, threshold) ==
    IF threshold = 50 THEN dashData.burden30 ELSE dashData.burden50

\* threshold === 50 ? window.dashData.burden50 : window.dashData.burden30
DatasetOf(dashData, threshold) ==
    IF threshold = 50 THEN dashData.burden50 ELSE dashData.burden30

IsAggregate(f) == f.TENURE = "Renters" /\ f.RACE = "All" /\ f.AGE = "All"
\* (a, b) => a.YEAR - b.YEAR is negative
RowYearAscending(a, b) == a.YEAR - b.YEAR < 0
RowYear(r) == Str(r.YEAR)
RowShare(r) == r.All_

\* trendChart after updateTrendChart(threshold)
updateTrendChart(trendChart, dashData, threshold) ==
    LET rows == StableSort(SelectSeq(DatasetOf(dashData, threshold), IsAggregate),
                           RowYearAscending)
    IN  IF rows = <<>> THEN trendChart
        ELSE [ready |-> TRUE, x |-> MapSeq(rows, RowYear), y |-> MapSeq(rows, RowShare)]

\* Array.prototype.find: the first element that passes, <<>> standing for undefined
Find(s, Test(_)) == Take(SelectSeq(s, Test), 1)

\* (share * 100).toFixed(1) + '%', in tenths of a percent
SharePercent(share) == MathRound(share, 10)

\* the year-scoped views: race chart and caption, income chart and caption,
\* the big burden number
\* after updateYearCharts(year, threshold)
updateYearCharts(views, dashData, year, threshold) ==
    LET dataset == DatasetOf(dashData, threshold)
        RaceValue(race) ==
            LET Match(f) == f.YEAR = year /\ f.TENURE = "Renters" /\ f.RACE = race /\ f.AGE = "All"
                row == Find(dataset, Match)
            IN  IF row # <<>> THEN row[1].All_ ELSE 0
        IncMatch(f) == f.YEAR = year
        incRow == Find(dashData.income, IncMatch)
        StatMatch(f) == f.YEAR = year /\ IsAggregate(f)
        statRow == Find(dataset, StatMatch)
    IN  [raceChart |-> [ready |-> TRUE, x |-> Races, y |-> MapSeq(Races, RaceValue)],
         raceYear |-> Str(year),
         incomeChart |->
            IF incRow # <<>>
            THEN [ready |-> TRUE, x |-> Brackets,
                  y |-> <<incRow[1].F0___30_, incRow[1].F30___50_, incRow[1].F50___80_,
                          incRow[1].F80___120_, incRow[1].Above_120_>>]
            ELSE views.incomeChart,
         incomeYear |-> IF incRow # <<>> THEN Str(year) ELSE views.incomeYear,
         burdenStat |-> IF statRow # <<>> THEN StatPercent(SharePercent(statRow[1].All_))
                        ELSE views.burdenStat]

\* the year-scoped views of the page as served
NoYearViews ==
    [raceChart |-> NullChart, raceYear |-> Str(DefaultYear),
     incomeChart |-> NullChart, incomeYear |-> Str(DefaultYear),
     burdenStat |-> StatDash]

(***************************************************************************)
(* State.                                                                  *)
(***************************************************************************)
VARIABLES
    mapLoad,        \* "waiting" until the map's 'load' event, then "loaded"
    mhaFetch,       \* fetch(MHA_DATA): "idle", "pending", "ok", "failed"
    housingFetch,   \* fetch(HOUSING_DATA): "idle", "pending", "ok", "failed"
    consoleErrors,  \* the messages given to console.error
    layerVis,       \* layout visibility of each map layer, "absent" if not added
    handlers,       \* setupHoverEvents / setupClickEvents / setupIdleEvent ran
    panelInit,      \* initPanel ran: toggle and reset listeners are attached
    activeLayer,    \* panel state: 'rent' | 'burden' | 'mha'
    activeBtn,      \* the layer button carrying class 'active'
    legend,         \* #legend-title and #legend-items
    stat,           \* #stat-label, #stat-value, #stat-sub
    barChart, lineChart, donutChart,
    chart2Title, chart3Title,
    timers,         \* pending setTimeout(updateFromMap, ...) callbacks
    hoveredTractId, \* map.js: GEOID of the hovered tract, NULL if none
    hoverOpacity,   \* 'line-opacity' of layer housing-hover
    hoverFilter,    \* GEOID the filter of housing-hover selects, NULL if no filter
    cursor,         \* canvas cursor style
    tooltip,        \* #tooltip: display, #tt-name, #tt-body, left / top
    pointerLayer,   \* the layer whose features the pointer is over, NULL if none
    visible,        \* the list the last updateFromMap handed to updateStat
    dataFetch,      \* the three fetches of Promise.all: "pending", "ok", "failed"
    dataJoin,       \* the Promise.all promise: "pending", "resolved", "rejected"
    dashData,       \* window.dashData
    currentYear, currentThreshold,
    yearDisplay,    \* #year-display
    thresholdBtn,   \* the threshold button carrying class 'active'
    trendChart,
    yearViews,      \* raceChart, #race-year, incomeChart, #income-year, #burden-stat
    uncaught,       \* exceptions that left a handler uncaught
    zonesFetch,     \* fetch('assets/MHA.geojson') of the zone map
    hoveredId,      \* zone map: id of the hovered zone, NULL if none
    featureState,   \* the zone ids whose feature-state 'hovered' is true
    popup,          \* the mapboxgl.Popup: NULL when removed, else its content
    lastEvent       \* the handler that ran last

mapVars == <<mapLoad, mhaFetch, housingFetch, consoleErrors, layerVis, handlers>>
panelVars == <<panelInit, activeLayer, activeBtn, legend, stat>>
chartVars == <<barChart, lineChart, donutChart, chart2Title, chart3Title>>
hoverVars == <<hoveredTractId, hoverOpacity, hoverFilter, cursor, tooltip, pointerLayer>>
dashVars == <<mapVars, panelVars, chartVars, hoverVars, timers, visible>>
dataVars == <<dataFetch, dataJoin, dashData, currentYear, currentThreshold, yearDisplay,
              thresholdBtn, trendChart, yearViews, uncaught>>
zoneVars == <<zonesFetch, hoveredId, featureState, popup>>
vars == <<dashVars, dataVars, zoneVars, lastEvent>>

Sources == {"burden50", "burden30", "income"}

NoLegend == [title |-> "", items |-> <<>>]

\* the page before any script callback has run
Init ==
    /\ mapLoad = "waiting"
    /\ mhaFetch = "idle"
    /\ housingFetch = "idle"
    /\ consoleErrors = {}
    /\ layerVis = [l \in LayerIds |-> "absent"]
    /\ handlers = FALSE
    /\ panelInit = FALSE
    /\ activeLayer = "rent"
    /\ activeBtn = "rent"
    /\ legend = NoLegend
    /\ stat = ResetStat
    /\ barChart = NullChart
    /\ lineChart = NullChart
    /\ donutChart = NullChart
    /\ chart2Title = LinePlaceholderTitle
    /\ chart3Title = DonutPlaceholderTitle
    /\ timers = 0
    /\ hoveredTractId = NULL
    /\ hoverOpacity = 0
    /\ hoverFilter = NULL
    /\ cursor = ""
    /\ tooltip = HiddenTooltip
    /\ pointerLayer = NULL
    /\ visible = <<>>
    /\ dataFetch = [src \in Sources |-> "pending"]
    /\ dataJoin = "pending"
    /\ dashData = EmptyData
    /\ currentYear = DefaultYear
    /\ currentThreshold = DefaultThreshold
    /\ yearDisplay = DefaultYear
    /\ thresholdBtn = DefaultThreshold
    /\ trendChart = NullChart
    /\ yearViews = NoYearViews
    /\ uncaught = {}
    /\ zonesFetch = "idle"
    /\ hoveredId = NULL
    /\ featureState = {}
    /\ popup = NULL
    /\ lastEvent = "init"

(***************************************************************************)
(* Map load (src/js/map.js 83-193).                                        *)
(***************************************************************************)
\* map.on('load'): both fetches are issued, each with its own promise chain
MapLoad ==
    /\ mapLoad = "waiting"
    /\ mapLoad' = "loaded"
    /\ mhaFetch' = "pending"
    /\ housingFetch' = "pending"
    /\ lastEvent' = "mapLoad"
    /\ UNCHANGED <<dataVars, zoneVars>>
    /\ UNCHANGED <<consoleErrors, layerVis, handlers, panelVars, chartVars, hoverVars,
                   timers, visible>>

\* the MHA chain resolves: source 'mha', layers mha-fill and mha-line, hidden
MhaLoaded ==
    /\ mhaFetch = "pending"
    /\ mhaFetch' = "ok"
    /\ layerVis' = [layerVis EXCEPT !["mha-fill"] = "none", !["mha-line"] = "none"]
    /\ lastEvent' = "mhaLoaded"
    /\ UNCHANGED <<dataVars, zoneVars>>
    /\ UNCHANGED <<mapLoad, housingFetch, consoleErrors, handlers, panelVars, chartVars,
                   hoverVars, timers, visible>>

\* the MHA chain rejects (fetch or r.json()): .catch logs
MhaFailed ==
    /\ mhaFetch = "pending"
    /\ mhaFetch' = "failed"
    /\ consoleErrors' = consoleErrors \cup {"MHA load error:"}
    /\ lastEvent' = "mhaFailed"
    /\ UNCHANGED <<dataVars, zoneVars>>
    /\ UNCHANGED <<mapLoad, housingFetch, layerVis, handlers, panelVars, chartVars,
                   hoverVars, timers, visible>>

\* barChart, lineChart, donutChart after initCharts() of part_001
initCharts == <<EmptyChart, EmptyChart, EmptyDonut>>

\* the housing chain resolves: layers, event handlers, charts, panel, first update
HousingLoaded ==
    /\ housingFetch = "pending"
    /\ housingFetch' = "ok"
    /\ layerVis' = [layerVis EXCEPT !["rent-fill"] = "visible",
                                    !["burden-fill"] = "none",
                                    !["housing-line"] = "visible",
                                    !["housing-hover"] = "visible"]
    /\ handlers' = TRUE
    /\ barChart' = initCharts[1]
    /\ lineChart' = initCharts[2]
    /\ donutChart' = initCharts[3]
    /\ legend' = renderLegend(legend, "rent")
    /\ panelInit' = TRUE
    /\ timers' = timers + 1
    /\ lastEvent' = "housingLoaded"
    /\ UNCHANGED <<dataVars, zoneVars>>
    /\ UNCHANGED <<mapLoad, mhaFetch, consoleErrors, activeLayer, activeBtn, stat,
                   chart2Title, chart3Title, hoverVars, visible>>

\* the housing chain rejects: .catch logs
HousingFailed ==
    /\ housingFetch = "pending"
    /\ housingFetch' = "failed"
    /\ consoleErrors' = consoleErrors \cup {"Housing data load error:"}
    /\ lastEvent' = "housingFailed"
    /\ UNCHANGED <<dataVars, zoneVars>>
    /\ UNCHANGED <<mapLoad, mhaFetch, layerVis, handlers, panelVars, chartVars,
                   hoverVars, timers, visible>>

(***************************************************************************)
(* updateFromMap (src/js/map.js 292-329): on 'idle' and from the timers.   *)
(***************************************************************************)
\* <<stat, barChart, visible>> after updateFromMap() when the map renders features
updateFromMap(features) ==
    IF VisibleLayer(layerVis) = NULL
    THEN <<updateStat(stat, activeLayer, <<>>), barChart, <<>> >>
    ELSE LET vis == DedupeByGeoid(features, {})
         IN  <<updateStat(stat, activeLayer, vis), updateBarChart(barChart, BarData(vis)), vis>>

\* map.on('idle', updateFromMap)
Idle(features) ==
    /\ handlers
    /\ LET r == updateFromMap(features)
       IN  /\ stat' = r[1]
           /\ barChart' = r[2]
           /\ visible' = r[3]
    /\ lastEvent' = "idle"
    /\ UNCHANGED <<dataVars, zoneVars>>
    /\ UNCHANGED <<mapVars, panelInit, activeLayer, activeBtn, legend, lineChart, donutChart,
                   chart2Title, chart3Title, hoverVars, timers>>

\* a setTimeout(updateFromMap, ...) callback runs
TimerFires(features) ==
    /\ timers > 0
    /\ timers' = timers - 1
    /\ LET r == updateFromMap(features)
       IN  /\ stat' = r[1]
           /\ barChart' = r[2]
           /\ visible' = r[3]
    /\ lastEvent' = "timer"
    /\ UNCHANGED <<dataVars, zoneVars>>
    /\ UNCHANGED <<mapVars, panelInit, activeLayer, activeBtn, legend, lineChart, donutChart,
                   chart2Title, chart3Title, hoverVars>>

(***************************************************************************)
(* Layer toggle and reset (src/unnamed/part_000 182-237).                  *)
(***************************************************************************)
\* the toggle handler without its `layer === activeLayer` early return
LayerToggleUnguarded(layer) ==
    /\ panelInit
    /\ timers < MaxTimers
    /\ activeBtn' = layer
    /\ activeLayer' = layer
    /\ legend' = renderLegend(legend, layer)
    /\ layerVis' = switchMapLayer(layerVis, layer)
    /\ timers' = ScheduleUpdate(timers)
    /\ lastEvent' = IF layer = activeLayer THEN "toggleSame" ELSE "toggle"
    /\ UNCHANGED <<mapLoad, mhaFetch, housingFetch, consoleErrors, handlers,
                   panelInit, stat, chartVars, hoverVars, visible,
                   dataVars, zoneVars>>

\* click on the toggle button of `layer`
LayerToggle(layer) ==
    /\ panelInit
    /\ IF layer = activeLayer
       THEN /\ lastEvent' = "toggleSame"
            /\ UNCHANGED <<mapVars, panelVars, chartVars, hoverVars, timers, visible,
                           dataVars, zoneVars>>
       ELSE /\ timers < MaxTimers
            /\ activeBtn' = layer
            /\ activeLayer' = layer
            /\ legend' = renderLegend(legend, layer)
            /\ layerVis' = switchMapLayer(layerVis, layer)
            /\ timers' = ScheduleUpdate(timers)
            /\ lastEvent' = "toggle"
            /\ UNCHANGED <<mapLoad, mhaFetch, housingFetch, consoleErrors, handlers,
                           panelInit, stat, chartVars, hoverVars, visible,
                           dataVars, zoneVars>>

\* click on #reset-btn: panel state, stat, resetCharts(), resetMap(), hideTooltip()
Reset ==
    /\ panelInit
    /\ timers < MaxTimers
    /\ activeLayer' = "rent"
    /\ activeBtn' = "rent"
    /\ legend' = renderLegend(legend, "rent")
    /\ stat' = ResetStat
    /\ LET r == resetCharts(lineChart, chart2Title, donutChart, chart3Title)
       IN  /\ lineChart' = r[1]
           /\ chart2Title' = r[2]
           /\ donutChart' = r[3]
           /\ chart3Title' = r[4]
    /\ layerVis' = switchMapLayer(layerVis, "rent")
    /\ timers' = ScheduleUpdate(timers)
    /\ hoverOpacity' = 0
    /\ hoveredTractId' = NULL
    /\ tooltip' = hideTooltip(tooltip)
    /\ lastEvent' = IF lastEvent \in {"reset", "resetAgain"} THEN "resetAgain" ELSE "reset"
    /\ UNCHANGED <<dataVars, zoneVars>>
    /\ UNCHANGED <<mapLoad, mhaFetch, housingFetch, consoleErrors, handlers, panelInit,
                   barChart, hoverFilter, cursor, pointerLayer, visible>>

(***************************************************************************)
(* Hover and click (src/js/map.js 198-283).                                *)
(***************************************************************************)
HoverLayers == {"rent-fill", "burden-fill"}

\* map.on('mousemove', layerId) for a choropleth layer; e.features = feats
MouseMove(layerId, feats, at) ==
    /\ handlers
    /\ isLayerVisible(layerVis, layerId)
    /\ pointerLayer \in {NULL, layerId}
    /\ IF feats = <<>>
       THEN UNCHANGED hoverVars
       ELSE LET props == feats[1]
            IN  /\ cursor' = "pointer"
                /\ hoveredTractId' = props.GEOID
                /\ hoverFilter' = props.GEOID
                /\ hoverOpacity' = 1
                /\ tooltip' = showTooltip(activeLayer, props, at)
                /\ pointerLayer' = layerId
    /\ lastEvent' = "mousemove"
    /\ UNCHANGED <<dataVars, zoneVars>>
    /\ UNCHANGED <<mapVars, panelVars, chartVars, timers, visible>>

\* the mouseleave handler without `hoveredTractId = null`
MouseLeaveKeepsId(layerId) ==
    /\ handlers
    /\ pointerLayer = layerId
    /\ cursor' = ""
    /\ hoverOpacity' = 0
    /\ tooltip' = hideTooltip(tooltip)
    /\ pointerLayer' = NULL
    /\ lastEvent' = "mouseleave"
    /\ UNCHANGED <<dataVars, zoneVars>>
    /\ UNCHANGED <<mapVars, panelVars, chartVars, hoveredTractId, hoverFilter, timers,
                   visible>>

\* map.on('mouseleave', layerId) for a choropleth layer
MouseLeave(layerId) ==
    /\ handlers
    /\ pointerLayer = layerId
    /\ cursor' = ""
    /\ hoverOpacity' = 0
    /\ hoveredTractId' = NULL
    /\ tooltip' = hideTooltip(tooltip)
    /\ pointerLayer' = NULL
    /\ lastEvent' = "mouseleave"
    /\ UNCHANGED <<dataVars, zoneVars>>
    /\ UNCHANGED <<mapVars, panelVars, chartVars, hoverFilter, timers, visible>>

\* map.on('mousemove', 'mha-fill')
MhaMouseMove(feats, at) ==
    /\ handlers
    /\ isLayerVisible(layerVis, "mha-fill")
    /\ pointerLayer \in {NULL, "mha-fill"}
    /\ IF feats = <<>>
       THEN UNCHANGED hoverVars
       ELSE /\ cursor' = "pointer"
            /\ tooltip' = showTooltip(activeLayer, feats[1], at)
            /\ pointerLayer' = "mha-fill"
            /\ UNCHANGED <<hoveredTractId, hoverOpacity, hoverFilter>>
    /\ lastEvent' = "mhaMousemove"
    /\ UNCHANGED <<dataVars, zoneVars>>
    /\ UNCHANGED <<mapVars, panelVars, chartVars, timers, visible>>

\* map.on('mouseleave', 'mha-fill')
MhaMouseLeave ==
    /\ handlers
    /\ pointerLayer = "mha-fill"
    /\ cursor' = ""
    /\ tooltip' = hideTooltip(tooltip)
    /\ pointerLayer' = NULL
    /\ lastEvent' = "mhaMouseleave"
    /\ UNCHANGED <<dataVars, zoneVars>>
    /\ UNCHANGED <<mapVars, panelVars, chartVars, hoveredTractId, hoverOpacity, hoverFilter,
                   timers, visible>>

\* the 'mousemove' listener on #map: the tooltip follows the mouse
MapMouseMove(at) ==
    /\ handlers
    /\ tooltip' = IF tooltip.display = "block"
                  THEN [tooltip EXCEPT !.pos = positionTooltip(at[1], at[2])]
                  ELSE tooltip
    /\ lastEvent' = "mapMousemove"
    /\ UNCHANGED <<dataVars, zoneVars>>
    /\ UNCHANGED <<mapVars, panelVars, chartVars, hoveredTractId, hoverOpacity, hoverFilter,
                   cursor, pointerLayer, timers, visible>>

\* <<lineChart, chart2-title, donutChart, chart3-title>> after the click
\* handler's body for the clicked feature's properties
clickCharts(line0, title2, donut0, title3, props) ==
    LET name == OrText(props.NAME, "Selected Tract")
        timeseries == ParseTimeseries(props.RENT_TIMESERIES)
        line == updateLineChart(line0, title2, name, timeseries)
        donut == updateDonutChart(donut0, title3, name, props)
    IN  <<line[1], line[2], donut[1], donut[2]>>

\* the click handler redrawing the bar chart from the clicked feature as well
ClickRedrawsBar(layerId, feats) ==
    /\ handlers
    /\ isLayerVisible(layerVis, layerId)
    /\ IF feats = <<>>
       THEN UNCHANGED chartVars
       ELSE LET r == clickCharts(lineChart, chart2Title, donutChart, chart3Title, feats[1])
            IN  /\ lineChart' = r[1]
                /\ chart2Title' = r[2]
                /\ donutChart' = r[3]
                /\ chart3Title' = r[4]
                /\ barChart' = updateBarChart(barChart, BarData(feats))
    /\ lastEvent' = "click"
    /\ UNCHANGED <<dataVars, zoneVars>>
    /\ UNCHANGED <<mapVars, panelVars, hoverVars, timers, visible>>

\* map.on('click', layerId) for a choropleth layer; e.features = feats
Click(layerId, feats) ==
    /\ handlers
    /\ isLayerVisible(layerVis, layerId)
    /\ IF feats = <<>>
       THEN UNCHANGED chartVars
       ELSE LET r == clickCharts(lineChart, chart2Title, donutChart, chart3Title, feats[1])
            IN  /\ lineChart' = r[1]
                /\ chart2Title' = r[2]
                /\ donutChart' = r[3]
                /\ chart3Title' = r[4]
                /\ UNCHANGED barChart
    /\ lastEvent' = "click"
    /\ UNCHANGED <<dataVars, zoneVars>>
    /\ UNCHANGED <<mapVars, panelVars, hoverVars, timers, visible>>

(***************************************************************************)
(* Demographic data load, year slider, threshold toggle                    *)
(* (src/unnamed/part_000 1-52).                                            *)
(***************************************************************************)
notConsole == <<mapLoad, mhaFetch, housingFetch, layerVis, handlers, panelVars, chartVars,
                hoverVars, timers, visible>>

\* one fetch(...).then(r => r.json()) resolves; with the last one Promise.all
\* resolves and its .then callback runs: dashData, initCharts, first render
DataFetchOk(src, data) ==
    /\ dataFetch[src] = "pending"
    /\ dataFetch' = [dataFetch EXCEPT ![src] = "ok"]
    /\ IF dataJoin = "pending" /\ \A o \in Sources \ {src} : dataFetch[o] = "ok"
       THEN /\ dataJoin' = "resolved"
            /\ dashData' = data
            /\ trendChart' = updateTrendChart(initDemographicCharts[1], data, currentThreshold)
            /\ yearViews' = updateYearCharts(
                                [yearViews EXCEPT !.raceChart = initDemographicCharts[2],
                                                  !.incomeChart = initDemographicCharts[3]],
                                data, currentYear, currentThreshold)
            /\ lastEvent' = "dataLoaded"
       ELSE /\ lastEvent' = "dataFetchOk"
            /\ UNCHANGED <<dataJoin, dashData, trendChart, yearViews>>
    /\ UNCHANGED <<dashVars, currentYear, currentThreshold, yearDisplay, thresholdBtn,
                   uncaught, zoneVars>>

\* one fetch rejects or its JSON does not parse: Promise.all rejects with the
\* first failure and .catch logs it; later failures find the promise settled
DataFetchFail(src) ==
    /\ dataFetch[src] = "pending"
    /\ dataFetch' = [dataFetch EXCEPT ![src] = "failed"]
    /\ IF dataJoin = "pending"
       THEN /\ dataJoin' = "rejected"
            /\ consoleErrors' = consoleErrors \cup {"Data load error:"}
       ELSE UNCHANGED <<dataJoin, consoleErrors>>
    /\ lastEvent' = "dataFetchFail"
    /\ UNCHANGED <<notConsole, dashData, currentYear, currentThreshold, yearDisplay,
                   thresholdBtn, trendChart, yearViews, uncaught, zoneVars>>

\* the slider handler on a page whose charts exist from script load on:
\* updateYearCharts draws whether or not the data has arrived
SliderInputDrawsAlways(year) ==
    /\ currentYear' = year
    /\ yearDisplay' = year
    /\ yearViews' = updateYearCharts(yearViews, dashData, year, currentThreshold)
    /\ lastEvent' = "slider"
    /\ UNCHANGED <<dashVars, dataFetch, dataJoin, dashData, currentThreshold, thresholdBtn,
                   trendChart, uncaught, zoneVars>>

\* 'input' on #year-slider; raceChart.load throws while raceChart is undefined
SliderInput(year) ==
    /\ currentYear' = year
    /\ yearDisplay' = year
    /\ IF yearViews.raceChart.ready
       THEN /\ yearViews' = updateYearCharts(yearViews, dashData, year, currentThreshold)
            /\ UNCHANGED uncaught
       ELSE /\ uncaught' = uncaught \cup {"TypeError: raceChart is undefined"}
            /\ UNCHANGED yearViews
    /\ lastEvent' = "slider"
    /\ UNCHANGED <<dashVars, dataFetch, dataJoin, dashData, currentThreshold, thresholdBtn,
                   trendChart, zoneVars>>

\* 'click' on a threshold button; trendChart.load or raceChart.load throws
\* while the charts are undefined
ThresholdClick(threshold) ==
    /\ thresholdBtn' = threshold
    /\ currentThreshold' = threshold
    /\ IF trendChart.ready
       THEN /\ trendChart' = updateTrendChart(trendChart, dashData, threshold)
            /\ yearViews' = updateYearCharts(yearViews, dashData, currentYear, threshold)
            /\ UNCHANGED uncaught
       ELSE /\ uncaught' = uncaught \cup {"TypeError: raceChart is undefined"}
            /\ UNCHANGED <<trendChart, yearViews>>
    /\ lastEvent' = "threshold"
    /\ UNCHANGED <<dashVars, dataFetch, dataJoin, dashData, currentYear, yearDisplay,
                   zoneVars>>

(***************************************************************************)
(* MHA zone map (src/unnamed/part_000 330-460).                            *)
(***************************************************************************)
\* zone features of MHA.geojson: feature id and properties
ZoneFeature(id, props) == [id |-> id, properties |-> props]
ZoneFeatures == {ZoneFeature("z1", Zone1), ZoneFeature("z2", Zone2)}

\* map.on('load'): the fetch is issued
ZoneMapLoad ==
    /\ zonesFetch = "idle"
    /\ zonesFetch' = "pending"
    /\ lastEvent' = "zoneMapLoad"
    /\ UNCHANGED <<dashVars, dataVars, hoveredId, featureState, popup>>

\* the fetch resolves: source, layers mha-fill / mha-outline / mha-hover, handlers
ZonesLoaded ==
    /\ zonesFetch = "pending"
    /\ zonesFetch' = "ok"
    /\ lastEvent' = "zonesLoaded"
    /\ UNCHANGED <<dashVars, dataVars, hoveredId, featureState, popup>>

\* the fetch rejects: .catch logs
ZonesFailed ==
    /\ zonesFetch = "pending"
    /\ zonesFetch' = "failed"
    /\ consoleErrors' = consoleErrors \cup {"Failed to load MHA GeoJSON:"}
    /\ lastEvent' = "zonesFailed"
    /\ UNCHANGED <<notConsole, dataVars, hoveredId, featureState, popup>>

\* map.setFeatureState({source: 'mha', id}, {hovered})
setFeatureState(state, id, hovered) ==
    IF hovered THEN state \cup {id} ELSE state \ {id}

\* the popup's HTML for a zone
PopupOf(p) == [zoning |-> OrText(p.ZONING, "Zone"), mha |-> OrText(p.MHA_VALUE, "No MHA Tier")]

\* the zone mousemove handler without the `hovered: false` of the previous zone
ZoneMouseMoveKeepsPrevious(f) ==
    /\ zonesFetch = "ok"
    /\ hoveredId' = f.id
    /\ featureState' = setFeatureState(featureState, f.id, TRUE)
    /\ popup' = PopupOf(f.properties)
    /\ lastEvent' = "zoneMousemove"
    /\ UNCHANGED <<dashVars, dataVars, zonesFetch>>

\* map.on('mousemove', 'mha-fill') of the zone map
ZoneMouseMove(f) ==
    /\ zonesFetch = "ok"
    /\ hoveredId' = f.id
    /\ featureState' =
          setFeatureState(IF hoveredId # NULL
                          THEN setFeatureState(featureState, hoveredId, FALSE)
                          ELSE featureState,
                          f.id, TRUE)
    /\ popup' = PopupOf(f.properties)
    /\ lastEvent' = "zoneMousemove"
    /\ UNCHANGED <<dashVars, dataVars, zonesFetch>>

\* map.on('mouseleave', 'mha-fill') of the zone map
ZoneMouseLeave ==
    /\ zonesFetch = "ok"
    /\ featureState' = IF hoveredId # NULL
                       THEN setFeatureState(featureState, hoveredId, FALSE)
                       ELSE featureState
    /\ hoveredId' = NULL
    /\ popup' = NULL
    /\ lastEvent' = "zoneMouseleave"
    /\ UNCHANGED <<dashVars, dataVars, zonesFetch>>

\* e.features of a layer event: the features under the pointer
HitTests(S) == {<<>>} \cup {<<f>> : f \in S}

\* the inputs of the dashboard specification
MapViews == {<<>>, <<Tract1>>, <<Tract2>>, <<Tract3, NoIdFeature, Tract1, Tract3>>}
HoverHits == HitTests({Tract1, Tract2})
ZoneHits == HitTests({Zone1})
ClickHits == HitTests({Tract1, Tract3})
MainPointers == {<<20, 20>>}

\* the handlers of the map dashboard
NextMap(views, hovers, zones, clicks, pointers) ==
    \/ MapLoad
    \/ MhaLoaded
    \/ MhaFailed
    \/ HousingLoaded
    \/ HousingFailed
    \/ \E features \in views : Idle(features)
    \/ \E features \in views : TimerFires(features)
    \/ \E layer \in Layers : LayerToggle(layer)
    \/ Reset
    \/ \E layerId \in HoverLayers, feats \in hovers, at \in pointers :
          MouseMove(layerId, feats, at)
    \/ \E layerId \in HoverLayers : MouseLeave(layerId)
    \/ \E feats \in zones, at \in pointers : MhaMouseMove(feats, at)
    \/ MhaMouseLeave
    \/ \E at \in pointers : MapMouseMove(at)
    \/ \E layerId \in HoverLayers, feats \in clicks : Click(layerId, feats)

\* the handlers of the demographic panel
NextPanel(years, datasets) ==
    \/ \E src \in Sources, data \in datasets : DataFetchOk(src, data)
    \/ \E src \in Sources : DataFetchFail(src)
    \/ \E year \in years : SliderInput(year)
    \/ \E threshold \in Thresholds : ThresholdClick(threshold)

\* the handlers of the zone map
NextZones ==
    \/ ZoneMapLoad
    \/ ZonesLoaded
    \/ ZonesFailed
    \/ \E f \in ZoneFeatures : ZoneMouseMove(f)
    \/ ZoneMouseLeave

\* the map dashboard
Next == NextMap(MapViews, HoverHits, ZoneHits, ClickHits, MainPointers)

Spec == Init /\ [][Next]_vars

\* the demographic panel and the zone map
NextData == NextPanel(SliderYears, DataSets) \/ NextZones

SpecData == Init /\ [][NextData]_vars

\* the map dashboard over few inputs
NextLean ==
    NextMap({<<>>, <<Tract1>>}, {<<Tract1>>, <<Tract2>>}, {<<Zone1>>}, {<<Tract1>>},
            MainPointers)

\* hover in both maps: the map dashboard and the zone map
SpecHover == Init /\ [][NextLean \/ NextZones]_vars

\* reset against the year and threshold controls
SpecReset ==
    Init /\ [][\/ NextLean
               \/ \E year \in {2021} : SliderInput(year)
               \/ \E threshold \in Thresholds : ThresholdClick(threshold)]_vars

(***************************************************************************)
(* updateStat and updateBarChart on their own: the inputs are drawn in the *)
(* initial state and one action applies the function.                      *)
(***************************************************************************)
\* every variable but the listed ones as in Init
InitExcept(stat0, layer0, visible0, bar0) ==
    /\ mapLoad = "waiting"
    /\ mhaFetch = "idle"
    /\ housingFetch = "idle"
    /\ consoleErrors = {}
    /\ layerVis = [l \in LayerIds |-> "absent"]
    /\ handlers = FALSE
    /\ panelInit = FALSE
    /\ activeLayer \in layer0
    /\ activeBtn = activeLayer
    /\ legend = NoLegend
    /\ stat \in stat0
    /\ barChart \in bar0
    /\ lineChart = NullChart
    /\ donutChart = NullChart
    /\ chart2Title = LinePlaceholderTitle
    /\ chart3Title = DonutPlaceholderTitle
    /\ timers = 0
    /\ hoveredTractId = NULL
    /\ hoverOpacity = 0
    /\ hoverFilter = NULL
    /\ cursor = ""
    /\ tooltip = HiddenTooltip
    /\ pointerLayer = NULL
    /\ visible \in visible0
    /\ dataFetch = [src \in Sources |-> "pending"]
    /\ dataJoin = "pending"
    /\ dashData = EmptyData
    /\ currentYear = DefaultYear
    /\ currentThreshold = DefaultThreshold
    /\ yearDisplay = DefaultYear
    /\ thresholdBtn = DefaultThreshold
    /\ trendChart = NullChart
    /\ yearViews = NoYearViews
    /\ uncaught = {}
    /\ zonesFetch = "idle"
    /\ hoveredId = NULL
    /\ featureState = {}
    /\ popup = NULL
    /\ lastEvent = "init"

\* records for updateStat: MEDIAN_RENT and RENT_BURDEN_PCT
StatRecord(rent, burden) ==
    [BaseProps EXCEPT !.MEDIAN_RENT = rent, !.RENT_BURDEN_PCT = burden]
StatRecords ==
    {StatRecord(Num(1000), Num(40)), StatRecord(Num(0), Null),
     StatRecord(Num(2000), Num(25)), StatRecord(Undef, Undef),
     StatRecord(Num(-5), Num(0)), StatRecord(Num(1001), Num(33)),
     StatRecord(Null, Num(50))}
StatInputs == UNION {[1..n -> StatRecords] : n \in 0..MaxStatLen}

\* a stat block left by an earlier update under another layer
EarlierStat ==
    [label |-> BurdenLabel, value |-> StatPercent(325),
     sub |-> StatText("Renters paying 35%+ of income")]

InitStat == InitExcept({ResetStat, EarlierStat}, Layers, StatInputs, {NullChart})

\* updateStat(visible)
StatApply ==
    /\ lastEvent = "init"
    /\ stat' = updateStat(stat, activeLayer, visible)
    /\ lastEvent' = "updateStat"
    /\ UNCHANGED <<mapVars, panelInit, activeLayer, activeBtn, legend, chartVars, hoverVars,
                   timers, visible, dataVars, zoneVars>>

SpecStat == InitStat /\ [][StatApply]_vars

\* neighborhoods and tract ids of the generated bar chart inputs
HoodNames ==
    <<"Ballard", "Fremont", "Wallingford", "Ravenna", "Magnolia", "Greenwood",
      "Belltown", "Georgetown", "Delridge", "Northgate", "Laurelhurst", "Montlake",
      "Madrona", "Leschi">>

\* the rent of the i-th neighborhood: ascending, descending, in equal pairs,
\* or scattered
RentPattern(p, i) ==
    IF p = 1 THEN 1000 + 100 * i
    ELSE IF p = 2 THEN 3000 - 100 * i
    ELSE IF p = 3 THEN 1000 + 100 * (i \div 2)
    ELSE 1000 + 100 * ((7 * i) % 13)

BarRecord(hood, rent) ==
    [BaseProps EXCEPT !.NEIGHBORHOOD = hood, !.MEDIAN_RENT = rent]
\* one tract in each of n neighborhoods
BarBase(n, p) == [i \in 1..n |-> BarRecord(HoodNames[i], Num(RentPattern(p, i)))]
\* further tracts: a second tract of a neighborhood, no neighborhood, no rent
BarExtras ==
    {BarRecord("Ballard", Num(1001)), BarRecord("Delridge", Num(5000)),
     BarRecord("", Num(1800)), BarRecord("Fremont", Num(0)),
     BarRecord("Fremont", Undef), BarRecord("Ballard", Num(2))}
BarInputs ==
    {base \o extra :
        base \in {BarBase(n, p) : n \in 0..MaxHoods, p \in 1..4},
        extra \in UNION {[1..k -> BarExtras] : k \in 0..MaxExtra}}

\* a bar chart holding an earlier ranking
EarlierBar == [ready |-> TRUE, x |-> <<"Ballard">>, y |-> <<1234>>]

InitBar == InitExcept({ResetStat}, {"rent"}, BarInputs, {EmptyChart, EarlierBar})

\* the bar chart part of updateFromMap: barData, updateBarChart(barData)
BarApply ==
    /\ lastEvent = "init"
    /\ barChart' = updateBarChart(barChart, BarData(visible))
    /\ lastEvent' = "updateBarChart"
    /\ UNCHANGED <<mapVars, panelVars, lineChart, donutChart, chart2Title, chart3Title,
                   hoverVars, timers, visible, dataVars, zoneVars>>

SpecBar == InitBar /\ [][BarApply]_vars

(***************************************************************************)
(* Properties of the map dashboard.                                        *)
(***************************************************************************)
ThematicFills == {"rent-fill", "burden-fill", "mha-fill"}
FillOf(layer) ==
    IF layer = "rent" THEN "rent-fill" ELSE IF layer = "burden" THEN "burden-fill" ELSE "mha-fill"
VisibleFills == {l \in ThematicFills : layerVis[l] = "visible"}
\* a click on the reset control; "resetAgain" is a reset that directly follows
\* another reset
ResetEvents == {"reset", "resetAgain"}
SwitchEvents == {"toggle"} \cup ResetEvents

\* C1 (as stated): a layer switch is processed to completion, its
\* updateFromMap included, before the next event: the step that follows a
\* toggle or a reset is the updateFromMap of that switch.
C1_UpdateBeforeNextEvent ==
    [][(lastEvent \in SwitchEvents) => (lastEvent' = "timer")]_vars

\* C1 (amended): a toggle to another layer or a reset changes the active layer
\* and the layer visibility in one step and leaves its updateFromMap pending as
\* one more timer; the step itself does not recompute the bar chart, and a
\* toggle does not recompute the stat.
C1_SwitchDefersUpdate ==
    [][lastEvent' \in SwitchEvents /\ vars' # vars =>
          /\ timers' = timers + 1
          /\ barChart' = barChart
          /\ visible' = visible
          /\ layerVis'[FillOf(activeLayer')] \in {"visible", "absent"}
          /\ (lastEvent' = "toggle" => stat' = stat)]_vars

\* another handler has run between a switch to the burden layer and the
\* updateFromMap of that switch: the stat still carries the rent pass
C1_Witness ==
    /\ lastEvent = "mousemove"
    /\ timers > 0
    /\ activeLayer = "burden"
    /\ stat.label = RentLabel
    /\ stat.value # StatDash

\* C2 (as stated): once the layers exist exactly one of rent-fill,
\* burden-fill and mha-fill is visible, and it is the one activeLayer names,
\* whatever the MHA load does.
C2_ExactlyOneThematicLayer ==
    panelInit => VisibleFills = {FillOf(activeLayer)}

\* C3 (as stated): after an updateFromMap pass the stat and the bar chart
\* come from the same visible set: the stat does not show the dash while the
\* bar chart still shows a series.
C3_StatAndBarAgree ==
    (lastEvent \in {"idle", "timer"} /\ stat.value = StatDash) => barChart.x = <<>>

\* C4 (as stated): the startup load has no partial success: when a data
\* file fails to load, one error is logged and no layer, handler, chart or
\* panel is initialised.
C4_NoPartialSuccess ==
    (mhaFetch = "failed" \/ housingFetch = "failed") =>
        /\ \A l \in LayerIds : layerVis[l] = "absent"
        /\ ~handlers
        /\ ~panelInit
        /\ ~barChart.ready /\ ~lineChart.ready /\ ~donutChart.ready
        /\ Cardinality(consoleErrors) = 1

\* C5 (as stated): a reset returns the selection state to its defaults
\* (rent layer, latest year, threshold 50, no hovered tract) and all four
\* charts to their placeholder state.
C5_ResetRestoresEverything ==
    lastEvent \in ResetEvents =>
        /\ activeLayer = "rent"
        /\ currentYear = DefaultYear
        /\ currentThreshold = DefaultThreshold
        /\ hoveredTractId = NULL
        /\ barChart = EmptyChart
        /\ lineChart = EmptyChart
        /\ donutChart = EmptyDonut
        /\ trendChart.x = <<>>

\* C5 (amended): a reset returns the active layer, its button, the legend and
\* the layer visibility to rent, the stat to its placeholder, the line and
\* donut charts and their titles to the placeholder state, and clears the
\* hover highlight and the tooltip; it leaves the bar chart, the year, the
\* threshold and the year / threshold charts as they were.
C5_ResetEffect ==
    [][lastEvent' \in ResetEvents /\ vars' # vars =>
          /\ activeLayer' = "rent"
          /\ activeBtn' = "rent"
          /\ legend' = [title |-> LEGEND_CONFIG["rent"].title,
                        items |-> LEGEND_CONFIG["rent"].items]
          /\ stat' = [label |-> RentLabel, value |-> StatDash,
                      sub |-> StatText("Hover a tract for details")]
          /\ VisibleFills' = {"rent-fill"}
          /\ hoveredTractId' = NULL
          /\ hoverOpacity' = 0
          /\ tooltip'.display = "none"
          /\ lineChart' = EmptyChart
          /\ donutChart' = EmptyDonut
          /\ chart2Title' = LinePlaceholderTitle
          /\ chart3Title' = DonutPlaceholderTitle
          /\ UNCHANGED <<barChart, currentYear, currentThreshold, yearDisplay,
                         thresholdBtn, trendChart, yearViews>>]_vars

\* a reset has run with a bar series on screen, a tract selected before and
\* the year and threshold away from their defaults
C5_Witness ==
    /\ lastEvent = "reset"
    /\ barChart.x # <<>>
    /\ currentYear # DefaultYear
    /\ currentThreshold # DefaultThreshold
    /\ lineChart = EmptyChart
    /\ mhaFetch = "ok"

\* C6: a toggle to the layer that is already active changes nothing: not
\* the active layer, the buttons, the legend, the layer visibility, the stat
\* or the charts, and it schedules no updateFromMap.
C6_SameLayerToggleIsNoOp ==
    [][lastEvent' = "toggleSame" =>
          UNCHANGED <<dashVars, dataVars, zoneVars>>]_vars

\* the burden button has been clicked while burden was active, with the
\* update of the earlier switch still pending
C6_Witness ==
    /\ lastEvent = "toggleSame"
    /\ activeLayer = "burden"
    /\ timers = 1

\* the tracts drawn with the hover outline: housing-hover at line-opacity 1,
\* filtered to one GEOID
HighlightedTracts ==
    IF layerVis["housing-hover"] = "visible" /\ hoverOpacity = 1
    THEN {t \in Tracts : t.GEOID = hoverFilter}
    ELSE {}

\* C7: at most one tract is highlighted and it is the hovered tract; at
\* most one zone has the hovered feature state and it is the hovered zone.
C7_SingleHighlight ==
    /\ Cardinality(HighlightedTracts) <= 1
    /\ HighlightedTracts = {t \in Tracts : t.GEOID = hoveredTractId}
    /\ Cardinality(featureState) <= 1
    /\ featureState = {hoveredId} \ {NULL}

\* the pointer has moved from one tract to another and from one zone to
\* another
C7_Witness ==
    /\ lastEvent = "zoneMousemove"
    /\ hoveredId = "z2"
    /\ featureState = {"z2"}
    /\ hoveredTractId = "g2"
    /\ HighlightedTracts = {Tract2}

(***************************************************************************)
(* Properties of updateStat and of the ranked bar series.                  *)
(***************************************************************************)
\* the records of the visible set that count for the layer's stat
CountsForRent(d) == d.MEDIAN_RENT.k = "num" /\ d.MEDIAN_RENT.n > 0
CountsForBurden(d) == d.RENT_BURDEN_PCT.k = "num"
CountsFor(layer, d) == IF layer = "rent" THEN CountsForRent(d) ELSE CountsForBurden(d)
RentIncluded == {i \in DOMAIN visible : CountsForRent(visible[i])}

RECURSIVE RentTotal(_)
\* the sum of MEDIAN_RENT over a set of positions of the visible set
RentTotal(idx) ==
    IF idx = {} THEN 0
    ELSE LET i == CHOOSE j \in idx : TRUE
         IN  visible[i].MEDIAN_RENT.n + RentTotal(idx \ {i})

\* m is total / count rounded to the nearest integer, a half rounded up
IsRoundedMean(m, total, count) ==
    /\ 2 * (m * count - total) <= count
    /\ 2 * (m * count - total) > -count

\* C8: for the rent and the burden layer, a visible set that is empty or
\* in which no record passes the layer's filter leaves the stat value at the
\* no-data marker, not at a number.
C8_NoDataMarker ==
    (/\ lastEvent = "updateStat"
     /\ activeLayer \in {"rent", "burden"}
     /\ \A i \in DOMAIN visible : ~CountsFor(activeLayer, visible[i])) =>
        stat.value.kind = "text" /\ stat.value.s = DASH

\* updateStat has run on a non-empty visible set with no countable rent
C8_Witness ==
    /\ lastEvent = "updateStat"
    /\ activeLayer = "rent"
    /\ visible = <<StatRecord(Num(0), Null), StatRecord(Num(-5), Num(0)),
                   StatRecord(Undef, Undef)>>
    /\ stat.value = StatDash

\* C9 (as stated): under the rent layer the stat value is the arithmetic
\* mean of the positive MEDIAN_RENT values of the visible set and the
\* sub-label counts the records included.
C9_ExactMean ==
    (lastEvent = "updateStat" /\ activeLayer = "rent" /\ RentIncluded # {}) =>
        /\ stat.value.kind = "dollars"
        /\ stat.value.n * Cardinality(RentIncluded) = RentTotal(RentIncluded)
        /\ stat.sub = StatCount(Cardinality(RentIncluded))

\* C9 (amended): under the rent layer the stat value is the arithmetic mean
\* of the positive MEDIAN_RENT values of the visible set, rounded to the
\* nearest whole dollar with a half rounded up; records with a zero,
\* negative or missing MEDIAN_RENT enter neither the sum nor the count, and
\* the sub-label counts the records included.
C9_RoundedMean ==
    (lastEvent = "updateStat" /\ activeLayer = "rent" /\ RentIncluded # {}) =>
        /\ stat.label = RentLabel
        /\ stat.value.kind = "dollars"
        /\ IsRoundedMean(stat.value.n, RentTotal(RentIncluded), Cardinality(RentIncluded))
        /\ stat.sub = StatCount(Cardinality(RentIncluded))

\* the visible set [1000, 0, 2000] has given $1,500 over 2 tracts
C9_Witness ==
    /\ lastEvent = "updateStat"
    /\ activeLayer = "rent"
    /\ visible = <<StatRecord(Num(1000), Num(40)), StatRecord(Num(0), Null),
                   StatRecord(Num(2000), Num(25))>>
    /\ stat.value = StatDollars(1500)
    /\ stat.sub = StatCount(2)

\* the neighborhood a record is ranked under
HoodLabel(d) == IF d.NEIGHBORHOOD = "" THEN "Unknown" ELSE d.NEIGHBORHOOD
RankedHoods == {HoodLabel(visible[i]) : i \in RentIncluded}
HoodMembers(h) == {i \in RentIncluded : HoodLabel(visible[i]) = h}
IsHoodMean(m, h) == IsRoundedMean(m, RentTotal(HoodMembers(h)), Cardinality(HoodMembers(h)))
BarEntries == DOMAIN barChart.x

\* the bar series holds neighborhoods of the visible set, each once, each
\* with its mean, at most TopN of them and none a better one was left out for
BarSeriesIsRanking ==
    /\ Len(barChart.y) = Len(barChart.x)
    /\ Len(barChart.x) <= TopN
    /\ \A i \in BarEntries : barChart.x[i] \in RankedHoods
    /\ \A i \in BarEntries : IsHoodMean(barChart.y[i], barChart.x[i]) /\ barChart.y[i] > 0
    /\ \A i, j \in BarEntries : i # j => barChart.x[i] # barChart.x[j]
    /\ Cardinality(RankedHoods) <= TopN => Len(barChart.x) = Cardinality(RankedHoods)
    /\ Cardinality(RankedHoods) >= TopN => Len(barChart.x) = TopN
    /\ \A h \in RankedHoods :
          (\A i \in BarEntries : barChart.x[i] # h) =>
              \A i \in BarEntries : \E m \in 0..barChart.y[i] : IsHoodMean(m, h)

\* C10 (as stated): the bar series is the ranking of the neighborhoods by
\* mean rent, cut to the 8 largest, in strictly descending order.
C10_StrictlyDescending ==
    (lastEvent = "updateBarChart" /\ RankedHoods # {}) =>
        /\ BarSeriesIsRanking
        /\ \A i, j \in BarEntries : i < j => barChart.y[i] > barChart.y[j]

\* C10 (amended): the bar series groups the visible records with a positive
\* MEDIAN_RENT by neighborhood, takes the rounded mean of each group, holds
\* at most 8 entries and, with 8 or more neighborhoods, exactly the 8 with
\* the largest means, in non-increasing order: equal means may be neighbours.
C10_Descending ==
    (lastEvent = "updateBarChart" /\ RankedHoods # {}) =>
        /\ BarSeriesIsRanking
        /\ \A i, j \in BarEntries : i < j => barChart.y[i] >= barChart.y[j]

\* ten neighborhoods or more were ranked, eight are shown, two share a mean
C10_Witness ==
    /\ lastEvent = "updateBarChart"
    /\ Cardinality(RankedHoods) >= 10
    /\ Len(barChart.x) = TopN
    /\ \E i \in BarEntries : i < TopN /\ barChart.y[i] = barChart.y[i + 1]

(***************************************************************************)
(* Properties of the demographic panel.                                    *)
(***************************************************************************)
Zeros5 == <<0, 0, 0, 0, 0>>
\* no row of the active burden dataset or of the income dataset is of the
\* active year
YearAbsent ==
    /\ \A i \in DOMAIN DatasetOf(dashData, currentThreshold) :
          DatasetOf(dashData, currentThreshold)[i].YEAR # currentYear
    /\ \A i \in DOMAIN dashData.income : dashData.income[i].YEAR # currentYear

\* C11 (as stated): after the year moves to a year absent from the loaded
\* dataset, every race category and every income bracket is shown as 0.
C11_AbsentYearAllZero ==
    (lastEvent = "slider" /\ dataJoin = "resolved" /\ YearAbsent) =>
        /\ yearViews.raceChart.y = Zeros5
        /\ yearViews.incomeChart.y = Zeros5

(***************************************************************************)
(* Properties of the click-driven charts.                                  *)
(***************************************************************************)
ClickableFeatures == Tracts \cup {NoIdFeature}
ClickedOnce(props) == clickCharts(lineChart, chart2Title, donutChart, chart3Title, props)
ClickedTwice(props) ==
    LET r == ClickedOnce(props) IN clickCharts(r[1], r[2], r[3], r[4], props)

\* C12: from every reachable state, a second click on the same feature
\* leaves the line and donut series and titles as the first click left them.
C12_ClickIdempotent ==
    \A props \in ClickableFeatures : ClickedTwice(props) = ClickedOnce(props)

\* a tract with a rent history has been clicked: the line and donut charts
\* show it, a further click on it shows the same, a click elsewhere does not
C12_Witness ==
    /\ lastEvent = "click"
    /\ chart2Title = <<"Tract 1", "Rent Over Time">>
    /\ lineChart.x = <<Str(2020), Str(2021)>>
    /\ donutChart.y # EmptyDonut.y
    /\ ClickedOnce(Tract1) = <<lineChart, chart2Title, donutChart, chart3Title>>
    /\ ClickedOnce(Tract3) # <<lineChart, chart2Title, donutChart, chart3Title>>

\* C13 (as stated): with the MHA layer active, every updateFromMap pass
\* leaves the static MHA label in the stat block, not the no-data marker.
C13_MhaStaticLabel ==
    (lastEvent \in {"idle", "timer"} /\ activeLayer = "mha") =>
        /\ stat.label = MhaLabel
        /\ stat.value = StatText("Policy")
        /\ stat.value # StatDash

(***************************************************************************)
(* The dashboard over the inputs that matter to the tooltip: features with *)
(* absent fields, pointers near the edges of the window.                   *)
(***************************************************************************)
\* a tract whose MEDIAN_RENT and RENT_BURDEN_PCT are absent
Tract4 == [BaseProps EXCEPT !.GEOID = "g4", !.NAME = "Tract 4"]
TooltipHits == HitTests({Tract1, Tract2, Tract4})
\* a zone without MHA_VALUE
TooltipZoneHits == HitTests({Zone2})
\* pointer positions: clear of the edges, at the bottom right corner, and
\* in the middle of the window
TooltipPointers == {<<20, 20>>, <<190, 90>>, <<100, 50>>}

NextTooltip == NextMap({<<>>}, TooltipHits, TooltipZoneHits, {<<>>}, TooltipPointers)
SpecTooltip == Init /\ [][NextTooltip]_vars

\* C14 (as stated): when the hovered feature lacks the field of the active
\* layer, the first row of the tooltip (Median Rent, Rent Burden, MHA Value)
\* shows the placeholder.
C14_MissingFieldPlaceholder ==
    /\ (/\ tooltip.display = "block"
        /\ hoveredTractId = Tract4.GEOID
        /\ tooltip.rows[1].key \in {"Median Rent", "Rent Burden"}) =>
            tooltip.rows[1].val = TtText(DASH)
    /\ (/\ tooltip.display = "block"
        /\ pointerLayer = "mha-fill"
        /\ tooltip.rows[1].key = "MHA Value") =>
            tooltip.rows[1].val = TtText(DASH)

\* the years of the loaded datasets
DataYears ==
    {dashData.burden50[i].YEAR : i \in DOMAIN dashData.burden50}
        \cup {dashData.burden30[i].YEAR : i \in DOMAIN dashData.burden30}
        \cup {dashData.income[i].YEAR : i \in DOMAIN dashData.income}

\* C15 (as stated): once the datasets are loaded, the active year lies
\* within the range of years the datasets hold, whatever the year selector
\* has sent.
C15_YearInRange ==
    dataJoin = "resolved" =>
        \E lo \in DataYears, hi \in DataYears : lo <= currentYear /\ currentYear <= hi

\* the burden file of a threshold
FileOf(data, threshold) == IF threshold = 50 THEN data.burden50 ELSE data.burden30
\* positions of the Renters / All / All rows of a file
AggregateRows(ds) ==
    {i \in DOMAIN ds : ds[i].TENURE = "Renters" /\ ds[i].RACE = "All" /\ ds[i].AGE = "All"}
\* positions of the rows of a race in a year
RaceRows(ds, year, race) ==
    {i \in DOMAIN ds :
        ds[i].YEAR = year /\ ds[i].TENURE = "Renters" /\ ds[i].RACE = race /\ ds[i].AGE = "All"}
First(S) == CHOOSE i \in S : \A j \in S : i <= j

\* the chart holds the aggregate rows of the file, one point each, by year
IsTrendOf(chart, ds) ==
    /\ Len(chart.x) = Cardinality(AggregateRows(ds))
    /\ Len(chart.y) = Len(chart.x)
    /\ \A k \in DOMAIN chart.x :
          \E i \in AggregateRows(ds) : chart.x[k] = Str(ds[i].YEAR) /\ chart.y[k] = ds[i].All_
    /\ \A k, l \in DOMAIN chart.x : k < l => chart.x[k].str <= chart.x[l].str

\* the race chart holds, per race, the first row of the file for the year, or 0
IsRaceBreakdownOf(chart, ds, year) ==
    /\ chart.x = Races
    /\ \A k \in DOMAIN Races :
          chart.y[k] = IF RaceRows(ds, year, Races[k]) = {} THEN 0
                       ELSE ds[First(RaceRows(ds, year, Races[k]))].All_

C17_TooltipInsideWindow ==
    tooltip.display = "block" =>
        /\ 0 <= tooltip.pos[1]
        /\ tooltip.pos[1] + TooltipSize[1] <= WindowSize[1]
        /\ 0 <= tooltip.pos[2]
        /\ tooltip.pos[2] + TooltipSize[2] <= WindowSize[2]

(***************************************************************************)
(* The two load phases side by side: the map load of the dashboard with    *)
(* its updateFromMap passes, and the Promise.all load of the demographic   *)
(* panel with its slider and threshold handlers.                           *)
(***************************************************************************)
JoinViews == {<<>>, <<Tract1>>}
NextJoin ==
    \/ MapLoad
    \/ MhaLoaded
    \/ MhaFailed
    \/ HousingLoaded
    \/ HousingFailed
    \/ \E features \in JoinViews : Idle(features)
    \/ \E features \in JoinViews : TimerFires(features)
    \/ NextPanel(SliderYears, DataSets)
SpecJoin == Init /\ [][NextJoin]_vars

\* the stat block and the bar chart as the page is served
NothingDerivedOnMap == stat = ResetStat /\ barChart.x = <<>>
\* the demographic views as the page is served
NothingDerivedOnPanel == trendChart = NullChart /\ yearViews = NoYearViews

UpdatePasses == {"idle", "timer"}

\* C19: the reset control is idempotent. A reset that directly follows a
\* reset changes no part of the page: selection, layer visibility, legend,
\* stat block, charts, titles, hover and tooltip stay as the first reset
\* left them, and the only effect is one more pending updateFromMap. The
\* deferred passes add nothing either: an updateFromMap pass that directly
\* follows another over the same visible tracts leaves the stat block and
\* the bar chart as they are.
C19_ResetIdempotent ==
    /\ [][(lastEvent' = "resetAgain") =>
             (/\ timers' = timers + 1
              /\ UNCHANGED <<mapVars, panelVars, chartVars, hoverVars, visible,
                             dataVars, zoneVars>>)]_vars
    /\ [][(lastEvent \in UpdatePasses /\ lastEvent' \in UpdatePasses
              /\ visible' = visible) =>
             (stat' = stat /\ barChart' = barChart)]_vars

\* the reset control has been clicked twice in a row, with the MHA layer
\* loaded and a bar series on screen; both updateFromMap passes are pending
C19_Witness ==
    /\ lastEvent = "resetAgain"
    /\ timers = 2
    /\ mhaFetch = "ok"
    /\ barChart.x # <<>>
    /\ activeLayer = "rent"

LeaveEvents == {"mouseleave", "mhaMouseleave"}
PointerLayers == HoverLayers \cup {"mha-fill"}

\* after a pointer-leave of rent-fill, burden-fill or mha-fill: no hovered
\* id, no highlighted tract, no tooltip
UnhoverClears ==
    lastEvent \in LeaveEvents =>
        /\ hoveredTractId = NULL
        /\ HighlightedTracts = {}
        /\ tooltip.display = "none"

C21_TrendOfCurrentThreshold ==
    (lastEvent = "threshold" /\ dataJoin = "resolved" /\ trendChart.ready) =>
        IsTrendOf(trendChart, FileOf(dashData, currentThreshold))

\* clicks on every kind of tract: a rent history, an unparsable one, one
\* without a positive rent, none at all
SpecClick ==
    Init /\ [][NextMap({<<>>, <<Tract1>>}, {<<Tract1>>}, {<<Zone1>>},
                       HitTests(Tracts \cup {NoIdFeature}), MainPointers)]_vars

\* positions of the entries with a positive rent
PositiveEntries(entries) == {i \in DOMAIN entries : entries[i].rent > 0}

\* the chart holds the entries with a positive rent, one point each, by year
IsSeriesOf(chart, entries) ==
    /\ Len(chart.x) = Cardinality(PositiveEntries(entries))
    /\ Len(chart.y) = Len(chart.x)
    /\ \A k \in DOMAIN chart.x :
          \E i \in PositiveEntries(entries) :
              chart.x[k] = Str(entries[i].year) /\ chart.y[k] = entries[i].rent
    /\ \A k, l \in DOMAIN chart.x : k < l => chart.x[k].str <= chart.x[l].str

\* C22 (as stated): after a click the line chart holds the entries of the
\* clicked tract's parsed RENT_TIMESERIES that have a positive rent, ascending
\* by year; for a tract whose RENT_TIMESERIES is missing or unparsable that is
\* the empty series, not the series of the tract clicked before, while the
\* donut shows the clicked tract.
C22_LineShowsClickedSeries ==
    \A t \in Tracts \cup {NoIdFeature} :
        (/\ lastEvent = "click"
         /\ lineChart.ready
         /\ chart3Title = <<OrText(t.NAME, "Selected Tract"), "Rent Burden">>) =>
            IsSeriesOf(lineChart, ParseTimeseries(t.RENT_TIMESERIES))

(***************************************************************************)
(* Properties of the burden stat and of the deferred updateFromMap.        *)
(***************************************************************************)
BurdenIncluded == {i \in DOMAIN visible : CountsForBurden(visible[i])}

RECURSIVE BurdenTotal(_)
\* the sum of RENT_BURDEN_PCT over a set of positions of the visible set
BurdenTotal(idx) ==
    IF idx = {} THEN 0
    ELSE LET i == CHOOSE j \in idx : TRUE
         IN  visible[i].RENT_BURDEN_PCT.n + BurdenTotal(idx \ {i})

SpecSettle ==
    Init /\ [][\/ MapLoad
               \/ MhaLoaded
               \/ MhaFailed
               \/ HousingLoaded
               \/ HousingFailed
               \/ \E features \in {<<Tract1>>, <<Tract3, NoIdFeature, Tract1, Tract3>>} :
                     TimerFires(features)
               \/ \E layer \in Layers : LayerToggle(layer)
               \/ Reset]_vars

\* the last deferred updateFromMap has run and nothing has happened since
Settled == timers = 0 /\ lastEvent = "timer"

\* C24 (as stated): once every deferred updateFromMap has fired, the stat
\* block and the bar chart are those computed from the active layer and the
\* current visible set: what updateStat and updateBarChart give for them on
\* the page as served, with nothing kept from an earlier layer or pass.
C24_SettledFromLayerAndVisible ==
    (Settled /\ barChart.ready) =>
        /\ stat = updateStat(ResetStat, activeLayer, visible)
        /\ barChart = updateBarChart(EmptyChart, BarData(visible))

\* the label updateStat writes for a layer
LabelOf(layer) ==
    IF layer = "rent" THEN RentLabel ELSE IF layer = "burden" THEN BurdenLabel ELSE MhaLabel

\* C25 (as stated): after every updateStat call the stat label and
\* sub-label are those of the active layer, also when the call ends with the
\* no-data marker.
C25_LabelOfActiveLayer ==
    lastEvent \in UpdatePasses =>
        /\ stat.label = LabelOf(activeLayer)
        /\ activeLayer = "burden" => stat.sub = StatText("Renters paying 35%+ of income")
        /\ activeLayer = "mha" => stat.sub = StatText("Mandatory Housing Affordability overlay")

(***************************************************************************)
(* Properties of the year-scoped views.                                    *)
(***************************************************************************)
IncomeValues(r) == <<r.F0___30_, r.F30___50_, r.F50___80_, r.F80___120_, r.Above_120_>>
ActiveFile == FileOf(dashData, currentThreshold)

\* C26 (as stated): after an updateYearCharts call every year-scoped view
\* is of the active year and threshold: both captions name the year, the race
\* chart is the year's breakdown, and neither the income chart nor the big
\* burden number shows the row of another year.
C26_YearViewsOfOneYear ==
    (lastEvent \in {"slider", "threshold"} /\ dataJoin = "resolved") =>
        /\ yearViews.raceYear = Str(currentYear)
        /\ yearViews.incomeYear = Str(currentYear)
        /\ IsRaceBreakdownOf(yearViews.raceChart, ActiveFile, currentYear)
        /\ \A i \in DOMAIN dashData.income :
              dashData.income[i].YEAR # currentYear =>
                  yearViews.incomeChart.y # IncomeValues(dashData.income[i])
        /\ \A i \in AggregateRows(ActiveFile) :
              ActiveFile[i].YEAR # currentYear =>
                  yearViews.burdenStat # StatPercent(SharePercent(ActiveFile[i].All_))

(***************************************************************************)
(* Properties of the hover outline, the visible set and the frame of the   *)
(* handlers.                                                               *)
(***************************************************************************)
\* C27: the hover outline is opaque exactly when hoveredTractId is set, and
\* then its filter names that id and selects exactly one tract; after a reset
\* the outline is transparent and hoveredTractId is null.
C27_OutlineIffHovered ==
    /\ hoverOpacity = 1 <=> hoveredTractId # NULL
    /\ hoveredTractId # NULL =>
          /\ hoverFilter = hoveredTractId
          /\ Cardinality({t \in Tracts : t.GEOID = hoverFilter}) = 1
    /\ lastEvent \in ResetEvents => hoverOpacity = 0 /\ hoveredTractId = NULL

\* the pointer is on Tract 2 under the burden layer: the outline is opaque
\* and filtered to it, the tooltip is shown
C27_Witness ==
    /\ lastEvent = "mousemove"
    /\ activeLayer = "burden"
    /\ hoveredTractId = Tract2.GEOID
    /\ hoverOpacity = 1
    /\ hoverFilter = Tract2.GEOID
    /\ tooltip.display = "block"

\* every viewport of up to MaxViewLen rendered features: two features of
\* one GEOID, a tract of another, a feature without GEOID
DedupeViews ==
    UNION {[1..n -> {Tract1, Tract1Again, Tract2, NoIdFeature}] : n \in 0..MaxViewLen}

\* the load, the layer toggle and the updateFromMap passes over these
\* viewports
SpecVisible ==
    Init /\ [][\/ MapLoad
               \/ MhaLoaded
               \/ HousingLoaded
               \/ \E layer \in Layers : LayerToggle(layer)
               \/ \E features \in DedupeViews : Idle(features)
               \/ \E features \in DedupeViews : TimerFires(features)]_vars

\* the non-empty GEOIDs among the rendered features
RenderedIds(features) == {features[i].GEOID : i \in DOMAIN features} \ {""}
\* the first position at which a GEOID is rendered
FirstAt(features, id) == First({i \in DOMAIN features : features[i].GEOID = id})

\* vis holds one record per rendered GEOID: the first feature of that GEOID,
\* in rendering order, and no feature without GEOID
IsDedupeOf(vis, features) ==
    /\ {vis[k].GEOID : k \in DOMAIN vis} = RenderedIds(features)
    /\ Len(vis) = Cardinality(RenderedIds(features))
    /\ \A k \in DOMAIN vis : vis[k] = features[FirstAt(features, vis[k].GEOID)]
    /\ \A k, l \in DOMAIN vis :
          k < l => FirstAt(features, vis[k].GEOID) < FirstAt(features, vis[l].GEOID)

\* C28: the visible set of an updateFromMap pass holds at most one record
\* per GEOID: of the rendered features of one GEOID the first, none for a
\* feature without GEOID, in rendering order; it is computed from the rendered
\* features alone, so it replaces the visible set of the pass before.
C28_VisibleIsFirstPerGeoid ==
    /\ \A features \in DedupeViews :
          (handlers /\ VisibleLayer(layerVis) # NULL) =>
              IsDedupeOf(updateFromMap(features)[3], features)
    /\ lastEvent \in UpdatePasses =>
          \E features \in DedupeViews : visible = updateFromMap(features)[3]

\* an idle pass has left Tract 2 and Tract 1: the visible set of a viewport
\* that renders Tract 2, Tract 1, Tract 1 a second time and a feature without
\* GEOID, and not that of a viewport that renders the second Tract 1 first
C28_Witness ==
    /\ lastEvent = "idle"
    /\ visible = <<Tract2, Tract1>>
    /\ IsDedupeOf(visible, <<Tract2, Tract1, NoIdFeature>>)
    /\ IsDedupeOf(visible, <<NoIdFeature, Tract2, Tract1, Tract1Again>>)
    /\ ~IsDedupeOf(visible, <<Tract2, Tract1Again, Tract1>>)

\* the toggle, the updateFromMap passes and the pointer handlers
NonClickEvents ==
    {"toggle", "toggleSame", "idle", "timer", "mousemove", "mouseleave",
     "mhaMousemove", "mhaMouseleave", "mapMousemove"}
clickViews == <<lineChart, chart2Title, donutChart, chart3Title>>

\* C29: a layer toggle, an updateFromMap pass and a pointer move or leave
\* change neither the line chart and its title nor the donut chart and its
\* title; when these change the step is a click, a reset or the chart set-up
\* of the load. A click changes neither the active layer, the layer
\* visibility, the stat block nor the bar chart.
C29_FrameOfHandlers ==
    [][/\ (lastEvent' \in NonClickEvents) => (clickViews' = clickViews)
       /\ (clickViews' # clickViews) =>
             (lastEvent' \in {"click", "housingLoaded"} \cup ResetEvents)
       /\ (lastEvent' = "click") =>
             (UNCHANGED <<activeLayer, activeBtn, legend, layerVis, stat, barChart,
                          visible, timers>>)]_vars

\* a tract has been clicked under the burden layer with a stat value and a
\* bar series on screen: the line chart shows the tract, the rest is as before
C29_Witness ==
    /\ lastEvent = "click"
    /\ activeLayer = "burden"
    /\ lineChart.x # <<>>
    /\ chart3Title = <<"Tract 1", "Rent Burden">>
    /\ barChart.x # <<>>
    /\ stat.label = BurdenLabel
    /\ stat.value # StatDash

=============================================================================
